---------------------------- MODULE Spec2Model ----------------------------
(***************************************************************************)
(* Model of the blob processing pipeline:                                  *)
(*   - process_blob, the durable orchestrator of pipeline/function_app.py  *)
(*     (classification by extension, extraction, enrichment, persistence,  *)
(*     each activity called with RetryOptions(5000 ms, 5 attempts));       *)
(*   - the speechToText activity (submit, poll, fetch) of                  *)
(*     pipeline/activities/speechToText.py;                                *)
(*   - analyze_document_blob, the PII redaction function of                *)
(*     pipeline/function_app-new.py (submit, bounded poll loop, move).     *)
(* Strings the code inspects are sequences of one-character strings.       *)
(* Time is counted in seconds.                                             *)
(***************************************************************************)
EXTENDS Integers, Sequences, FiniteSets, TLC

(***************************************************************************)
(* Bounds of the model                                                     *)
(***************************************************************************)
\* longest time one activity execution takes
MaxDur == 0
\* how late after its due time a retry timer may fire
MaxLate == 0
\* polls of one transcription job that may answer with a non-terminal status
MaxPolls == 1
\* longest wait for a pending copy, in polls of the copy status
MaxCopyPolls == 1

(***************************************************************************)
(* Strings                                                                 *)
(***************************************************************************)
UpperCase == <<"A","B","C","D","E","F","G","H","I","J","K","L","M",
               "N","O","P","Q","R","S","T","U","V","W","X","Y","Z">>
LowerCase == <<"a","b","c","d","e","f","g","h","i","j","k","l","m",
               "n","o","p","q","r","s","t","u","v","w","x","y","z">>

\* the lower-case letter of every upper-case letter
LowerTable ==
  [c \in { UpperCase[i] : i \in 1..Len(UpperCase) } |->
     LowerCase[CHOOSE i \in 1..Len(UpperCase) : UpperCase[i] = c]]

UpperTable ==
  [c \in { LowerCase[i] : i \in 1..Len(LowerCase) } |->
     UpperCase[CHOOSE i \in 1..Len(LowerCase) : LowerCase[i] = c]]

\* str.lower() on one character
LowerChar(c) == IF c \in DOMAIN LowerTable THEN LowerTable[c] ELSE c

UpperChar(c) == IF c \in DOMAIN UpperTable THEN UpperTable[c] ELSE c

\* str.lower()
Lower(s) == [i \in 1..Len(s) |-> LowerChar(s[i])]

\* str.upper(), used to build input names only
Upper(s) == [i \in 1..Len(s) |-> UpperChar(s[i])]

\* '.' in s
HasDot(s) == \E i \in 1..Len(s) : s[i] = "."

\* position of the last '.' of s (0 when there is none)
LastDot(s) ==
  IF HasDot(s)
  THEN CHOOSE i \in 1..Len(s) : s[i] = "." /\ \A j \in (i+1)..Len(s) : s[j] # "."
  ELSE 0

\* s.split('.')[-1]
AfterLastDot(s) == SubSeq(s, LastDot(s) + 1, Len(s))

\* s.endswith(t)
EndsWith(s, t) ==
  Len(s) >= Len(t) /\ SubSeq(s, Len(s) - Len(t) + 1, Len(s)) = t

\* positions at or after `from` where t occurs in s
Occurrences(s, t, from) ==
  { i \in from..(Len(s) - Len(t) + 1) : SubSeq(s, i, i + Len(t) - 1) = t }

\* t in s
Contains(s, t) == Occurrences(s, t, 1) # {}

MinOf(S) == CHOOSE x \in S : \A y \in S : x <= y

\* s.split(t)[1], defined when t occurs in s
SplitSecond(s, t) ==
  LET first == MinOf(Occurrences(s, t, 1))
      rest  == SubSeq(s, first + Len(t), Len(s))
  IN  IF Contains(rest, t)
      THEN SubSeq(rest, 1, MinOf(Occurrences(rest, t, 1)) - 1)
      ELSE rest

\* s.split('/')[-1]
AfterLastSlash(s) ==
  LET slashes == { i \in 1..Len(s) : s[i] = "/" }
  IN  IF slashes = {} THEN s
      ELSE SubSeq(s, (CHOOSE i \in slashes : \A j \in slashes : j <= i) + 1, Len(s))

RECURSIVE Replace(_, _, _)
\* s.replace(old, new), old not empty
Replace(s, old, new) ==
  IF Len(s) < Len(old) THEN s
  ELSE IF SubSeq(s, 1, Len(old)) = old
       THEN new \o Replace(SubSeq(s, Len(old) + 1, Len(s)), old, new)
       ELSE << s[1] >> \o Replace(Tail(s), old, new)

(***************************************************************************)
(* process_blob: classification                                           *)
(***************************************************************************)
audio_extensions ==
  { <<"w","a","v">>, <<"m","p","3">>, <<"o","p","u","s">>, <<"o","g","g">>,
    <<"f","l","a","c">>, <<"w","m","a">>, <<"a","a","c">>, <<"w","e","b","m">> }

document_extensions ==
  { <<"p","d","f">>, <<"d","o","c","x">>, <<"d","o","c">>, <<"x","l","s","x">>,
    <<"p","p","t","x">>, <<"j","p","g">>, <<"j","p","e","g">>, <<"p","n","g">>,
    <<"t","i","f","f">>, <<"b","m","p">> }

\* file_extension = blob_name.lower().split('.')[-1] if '.' in blob_name else ""
file_extension_nolower(name) ==
  IF HasDot(name) THEN AfterLastDot(name) ELSE << >>

file_extension(name) ==
  IF HasDot(name) THEN AfterLastDot(Lower(name)) ELSE << >>

TrueStr == <<"t","r","u","e">>

\* config.get_value(KEY, "false").lower() == "true"
Enabled(value) == Lower(value) = TrueStr

\* the branch of the if/elif chain of process_blob that is taken
Branch_visionfirst(name, mm, vision) ==
  IF Enabled(vision) THEN "vision"
  ELSE IF Enabled(mm) /\ file_extension(name) \in document_extensions
       THEN "callAoaiMultiModal"
  ELSE IF file_extension(name) \in audio_extensions THEN "speechToText"
  ELSE IF file_extension(name) \in document_extensions THEN "runDocIntel"
  ELSE "unsupported"

Branch(name, mm, vision) ==
  IF Enabled(mm) /\ file_extension(name) \in document_extensions
  THEN "callAoaiMultiModal"
  ELSE IF Enabled(vision) THEN "vision"
  ELSE IF file_extension(name) \in audio_extensions THEN "speechToText"
  ELSE IF file_extension(name) \in document_extensions THEN "runDocIntel"
  ELSE "unsupported"

(***************************************************************************)
(* process_blob: retry options                                             *)
(***************************************************************************)
max_number_of_attempts_6 == 5 + 1
\* RetryOptions(max_number_of_attempts=5)
max_number_of_attempts == 5

first_retry_interval_short == 5 - 1
\* RetryOptions(first_retry_interval_in_milliseconds=5000), in seconds
first_retry_interval == 5

(***************************************************************************)
(* Inputs                                                                  *)
(***************************************************************************)
OtherExtensions ==
  { <<"x","y","z">>, <<"j","s","o","n">>, <<"w","a","v","x">>, <<"p","d">>, << >> }

Stem == <<"a", ".">>

BlobNames ==
  { Stem \o e : e \in audio_extensions \cup document_extensions \cup OtherExtensions }
  \cup { Stem \o Upper(e) : e \in { <<"w","a","v">>, <<"p","d","f">>, <<"x","y","z">> } }
  \cup { <<"a",".","P","d","f">>,
         <<"w","a","v">>, <<"p","d","f">>, <<"a">>, << >>,
         <<"a",".","w","a","v",".","p","d","f">>,
         <<"a",".","w","a","v",".","x","y","z">> }

ToggleValues ==
  { <<"t","r","u","e">>, <<"T","r","u","e">>, <<"f","a","l","s","e">> }

ExtractionActivities == { "callAoaiMultiModal", "speechToText", "runDocIntel" }
Activities == ExtractionActivities \cup { "callAoai", "writeToBlob" }

NoOutcome == [k \in {} |-> ""]


(***************************************************************************)
(* State                                                                   *)
(***************************************************************************)
VARIABLES
  \* process_blob: input and configuration
  blob_name,          \* blob_input["name"]
  AOAI_MULTI_MODAL,   \* config value of the multimodal toggle
  AI_VISION_ENABLED,  \* config value of the vision toggle
  \* process_blob: position and locals
  pc,                 \* "start", "extract", "enrich", "persist" or a terminal state
  activity,           \* the extraction activity chosen ("none" before)
  text_result,        \* local text_result ("unbound" until assigned)
  aoai_output,        \* local aoai_output
  task_result,        \* local task_result
  outcome,            \* the returned dict (empty until the return)
  error,              \* the exception that ended the instance (<<"none">> if none)
  \* call_activity_with_retry
  apc,                \* "none", "scheduled", "running", "waiting"
  attempts,           \* executions started, per activity
  failures,           \* executions that raised, per activity
  clock,              \* seconds since the last execution of the activity started
  minGap,             \* smallest time between two consecutive starts (-1: none yet)
  \* speechToText.run
  spc,                \* "none", "submit", "poll", "files", "content"
  polls,              \* non-terminal answers seen by wait_for_transcription
  current_status,     \* status read by the last poll while the loop goes on
  final_status,       \* status returned by wait_for_transcription
  jobsSubmitted,      \* transcription jobs created by the submit request
  submitFailed,       \* some submit request of this instance raised
  \* analyze_document_blob
  language_endpoint,  \* LANGUAGE_ENDPOINT is set
  storage_account_url,\* STORAGE_ACCOUNT_URL is set
  pii_blob,           \* blob.name
  ppc,                \* "start", "poll", "copy_wait", "done"
  elapsed,            \* time.time() - start_time
  polled,             \* a job status request was made
  pii_log,            \* what was logged
  pii_exit,           \* "running", "returned" (normally) or "raised"
  copy_status,        \* copy.status of the target blob ("none" before the copy)
  copy_polls,         \* pending answers seen while waiting for the copy
  root_blobs,         \* names of the blobs written at the root of the target
  sub_deleted,        \* the subfolder blob was deleted
  submit_response,    \* response of the analyze-text job request
  job_result,         \* tasks of the succeeded job, as read from the status
  redacted_pdf_url,   \* local redacted_pdf_url (empty: None or "")
  \* two instances of process_blob from callAoai on
  run_name,           \* blob_input["name"], per instance
  run_pc,             \* "enrich", "persist", "completed" or "failed", per instance
  run_output,         \* local aoai_output, per instance
  run_attempts,       \* executions of writeToBlob, per instance
  run_call,           \* input of the last writeToBlob execution, per instance
  store,              \* objects of the output store
  last_write,         \* the object written by the last successful write
  \* the name of the redacted blob, for two triggering blobs
  pii_in,             \* blob.name, per invocation
  pii_out,            \* new_blob_name, per invocation (empty until computed)
  \* the triggers of process_blob
  started,            \* client_input of each start_new("process_blob", ...)
  trigger_log,        \* per trigger invocation: its input, instance and response
  finished            \* instances that have ended

orchVars == << blob_name, AOAI_MULTI_MODAL, AI_VISION_ENABLED, pc, activity,
               text_result, aoai_output, task_result, outcome, error,
               apc, attempts, failures, clock, minGap >>

speechVars == << spc, polls, current_status, final_status, jobsSubmitted,
                submitFailed >>

piiVars == << language_endpoint, storage_account_url, pii_blob, ppc, elapsed,
             polled, pii_log, pii_exit, copy_status, copy_polls, root_blobs,
             sub_deleted, submit_response, job_result, redacted_pdf_url >>

runVars == << run_name, run_pc, run_output, run_attempts, run_call, store,
             last_write >>

nameVars == << pii_in, pii_out >>

triggerVars == << started, trigger_log, finished >>

vars == << orchVars, speechVars, piiVars, runVars, nameVars, triggerVars >>

blob_input == [name |-> blob_name, container |-> "bronze"]

Steps == { "extract", "enrich", "persist" }

\* the activity the orchestrator is waiting for
CurrentActivity ==
  CASE pc = "extract" -> activity
    [] pc = "enrich"  -> "callAoai"
    [] pc = "persist" -> "writeToBlob"
    [] OTHER          -> "none"

\* order of the yields of process_blob
StepAfter_skipEnrich(step) ==
  CASE step = "extract" -> "persist"
    [] step = "enrich"  -> "persist"
    [] step = "persist" -> "completed"

StepAfter(step) ==
  CASE step = "extract" -> "enrich"
    [] step = "enrich"  -> "persist"
    [] step = "persist" -> "completed"

\* process_blob has no try/except: an activity that exhausted its retries
\* raises out of the orchestrator
AfterExhaustion_swallowed(step) == StepAfter(step)

AfterExhaustion(step) == "failed"

Min(a, b) == IF a < b THEN a ELSE b

InitOrch ==
  /\ blob_name \in BlobNames
  /\ AOAI_MULTI_MODAL \in ToggleValues
  /\ AI_VISION_ENABLED \in ToggleValues
  /\ pc = "start"
  /\ activity = "none"
  /\ text_result = "unbound"
  /\ aoai_output = "unbound"
  /\ task_result = "unbound"
  /\ outcome = NoOutcome
  /\ error = << "none" >>
  /\ apc = "none"
  /\ attempts = [a \in Activities |-> 0]
  /\ failures = [a \in Activities |-> 0]
  /\ clock = 0
  /\ minGap = -1

InitSpeech ==
  /\ spc = "none"
  /\ polls = 0
  /\ current_status = "none"
  /\ final_status = "none"
  /\ jobsSubmitted = 0
  /\ submitFailed = FALSE

\* no response of the job request yet
NoResponse == [status_code |-> 0, operation_location |-> FALSE]

\* no job result read yet
NoResult == [items |-> FALSE, documents |-> FALSE, targets |-> << >>]

PiiBlobNames ==
  { <<"a",".","p","d","f">>, <<"d","/","a",".","d","o","c","x">>,
    <<"a",".","b",".","b">>, <<"a">> }

\* analyze_document_blob has not been triggered
PiiIdle ==
  /\ language_endpoint = TRUE
  /\ storage_account_url = TRUE
  /\ pii_blob = <<"a",".","p","d","f">>
  /\ ppc = "start"
  /\ elapsed = 0
  /\ polled = FALSE
  /\ pii_log = {}
  /\ pii_exit = "running"
  /\ copy_status = "none"
  /\ copy_polls = 0
  /\ root_blobs = {}
  /\ sub_deleted = FALSE
  /\ submit_response = NoResponse
  /\ job_result = NoResult
  /\ redacted_pdf_url = << >>

InitPii ==
  /\ language_endpoint \in BOOLEAN
  /\ storage_account_url \in BOOLEAN
  /\ pii_blob \in PiiBlobNames
  /\ ppc = "start"
  /\ elapsed = 0
  /\ polled = FALSE
  /\ pii_log = {}
  /\ pii_exit = "running"
  /\ copy_status = "none"
  /\ copy_polls = 0
  /\ root_blobs = {}
  /\ sub_deleted = FALSE
  /\ submit_response = NoResponse
  /\ job_result = NoResult
  /\ redacted_pdf_url = << >>

\* process_blob has not been started
OrchIdle ==
  /\ blob_name = << >>
  /\ AOAI_MULTI_MODAL = <<"f","a","l","s","e">>
  /\ AI_VISION_ENABLED = <<"f","a","l","s","e">>
  /\ pc = "idle"
  /\ activity = "none"
  /\ text_result = "unbound"
  /\ aoai_output = "unbound"
  /\ task_result = "unbound"
  /\ outcome = NoOutcome
  /\ error = << "none" >>
  /\ apc = "none"
  /\ attempts = [a \in Activities |-> 0]
  /\ failures = [a \in Activities |-> 0]
  /\ clock = 0
  /\ minGap = -1

Instances == { 1, 2 }

\* a write that did not happen
NoObject == [container |-> << >>, name |-> << >>, content |-> "none"]

\* writeToBlob was not called
NoCall == [json_str |-> "none", blob_name |-> << >>, final_output_container |-> << >>]

\* no second instance of process_blob is running
RunsIdle ==
  /\ run_name = [i \in Instances |-> << >>]
  /\ run_pc = [i \in Instances |-> "idle"]
  /\ run_output = [i \in Instances |-> "unbound"]
  /\ run_attempts = [i \in Instances |-> 0]
  /\ run_call = [i \in Instances |-> NoCall]
  /\ store = {}
  /\ last_write = NoObject

\* no name of a redacted blob is being computed
NamesIdle ==
  /\ pii_in = [i \in Instances |-> << >>]
  /\ pii_out = [i \in Instances |-> << >>]

\* no trigger has fired
TriggersIdle ==
  /\ started = << >>
  /\ trigger_log = << >>
  /\ finished = {}

Init == InitOrch /\ InitSpeech /\ PiiIdle /\ RunsIdle /\ NamesIdle /\ TriggersIdle

(***************************************************************************)
(* process_blob, from its start to the first yield, return or exception    *)
(***************************************************************************)
Classify ==
  /\ UNCHANGED << piiVars, runVars, nameVars, triggerVars >>
  /\ pc = "start"
  /\ LET b == Branch(blob_name, AOAI_MULTI_MODAL, AI_VISION_ENABLED) IN
       CASE b \in ExtractionActivities ->
              /\ pc' = "extract"
              /\ activity' = b
              /\ apc' = "scheduled"
              /\ UNCHANGED << outcome, error >>
         [] b = "vision" ->
              \* the branch is `pass`: building call_aoai_input reads
              \* text_result, which was never assigned
              /\ pc' = "failed"
              /\ error' = << "UnboundLocalError" >>
              /\ UNCHANGED << activity, apc, outcome >>
         [] OTHER ->
              /\ pc' = "skipped"
              /\ outcome' = [blob   |-> blob_input,
                             error  |-> << "Unsupported file type: ",
                                           file_extension(blob_name) >>,
                             status |-> "skipped"]
              /\ UNCHANGED << activity, apc, error >>
  /\ UNCHANGED << blob_name, AOAI_MULTI_MODAL, AI_VISION_ENABLED, text_result,
                  aoai_output, task_result, attempts, failures, clock, minGap >>
  /\ UNCHANGED speechVars

(***************************************************************************)
(* call_activity_with_retry(name, retry_options, input)                    *)
(***************************************************************************)
\* the first execution of the scheduled activity starts
StartAttempt ==
  /\ UNCHANGED << piiVars, runVars, nameVars, triggerVars >>
  /\ pc \in Steps
  /\ apc = "scheduled"
  /\ attempts' = [attempts EXCEPT ![CurrentActivity] = @ + 1]
  /\ apc' = "running"
  /\ clock' = 0
  /\ spc' = IF CurrentActivity = "speechToText" THEN "submit" ELSE "none"
  /\ UNCHANGED << blob_name, AOAI_MULTI_MODAL, AI_VISION_ENABLED, pc, activity,
                  text_result, aoai_output, task_result, outcome, error,
                  failures, minGap >>
  /\ UNCHANGED << polls, current_status, final_status, jobsSubmitted,
                  submitFailed >>

\* the retry timer, set first_retry_interval after the failure, fires and
\* the activity is executed again
RetryTimerFires ==
  /\ UNCHANGED << piiVars, runVars, nameVars, triggerVars >>
  /\ pc \in Steps
  /\ apc = "waiting"
  /\ \E late \in 0..MaxLate :
       minGap' = IF minGap = -1 THEN clock + first_retry_interval + late
                 ELSE Min(minGap, clock + first_retry_interval + late)
  /\ attempts' = [attempts EXCEPT ![CurrentActivity] = @ + 1]
  /\ apc' = "running"
  /\ clock' = 0
  /\ spc' = IF CurrentActivity = "speechToText" THEN "submit" ELSE "none"
  /\ UNCHANGED << blob_name, AOAI_MULTI_MODAL, AI_VISION_ENABLED, pc, activity,
                  text_result, aoai_output, task_result, outcome, error,
                  failures >>
  /\ UNCHANGED << polls, current_status, final_status, jobsSubmitted,
                  submitFailed >>

\* the dict returned after writeToBlob: the key text_result holds aoai_output
CompletedOutcome_extracted(blob, text, aoai, task) ==
  [blob |-> blob, text_result |-> text, task_result |-> task]

CompletedOutcome(blob, text, aoai, task) ==
  [blob |-> blob, text_result |-> aoai, task_result |-> task]

\* the running execution returns: the orchestrator resumes after the yield
\* and runs to its next yield or to its return
Succeed ==
  /\ pc' = StepAfter(pc)
  /\ text_result' = IF pc = "extract" THEN "text" ELSE text_result
  /\ aoai_output' = IF pc = "enrich" THEN "summary" ELSE aoai_output
  /\ task_result' = IF pc = "persist" THEN "written" ELSE task_result
  /\ apc' = IF pc' \in Steps THEN "scheduled" ELSE "none"
  /\ outcome' = IF pc' = "completed"
                THEN CompletedOutcome(blob_input, text_result, aoai_output,
                                      task_result')
                ELSE outcome
  /\ clock' = 0
  /\ UNCHANGED << blob_name, AOAI_MULTI_MODAL, AI_VISION_ENABLED, activity,
                  error, attempts, failures, minGap >>

\* the running execution raises after d more seconds: it is retried while
\* attempts remain, otherwise the exception reaches the orchestrator
Fail(d) ==
  /\ failures' = [failures EXCEPT ![CurrentActivity] = @ + 1]
  /\ IF attempts[CurrentActivity] < max_number_of_attempts
     THEN /\ apc' = "waiting"
          /\ clock' = clock + d
          /\ UNCHANGED << pc, error >>
     ELSE /\ pc' = AfterExhaustion(pc)
          /\ error' = << "ActivityFailed", CurrentActivity >>
          /\ apc' = IF pc' \in Steps THEN "scheduled" ELSE "none"
          /\ clock' = 0
  /\ UNCHANGED << blob_name, AOAI_MULTI_MODAL, AI_VISION_ENABLED, activity,
                  text_result, aoai_output, task_result, outcome, attempts,
                  minGap >>

\* an activity other than speechToText returns
ActivitySucceeds ==
  /\ UNCHANGED << piiVars, runVars, nameVars, triggerVars >>
  /\ pc \in Steps
  /\ apc = "running"
  /\ CurrentActivity # "speechToText"
  /\ Succeed
  /\ UNCHANGED speechVars

\* an activity other than speechToText raises
ActivityFails ==
  /\ UNCHANGED << piiVars, runVars, nameVars, triggerVars >>
  /\ pc \in Steps
  /\ apc = "running"
  /\ CurrentActivity # "speechToText"
  /\ \E d \in 0..MaxDur : Fail(d)
  /\ UNCHANGED speechVars

(***************************************************************************)
(* speechToText.run                                                        *)
(***************************************************************************)
check_interval == 10

SpeechStatuses == { "Running", "Succeeded", "Failed", "Cancelled" }

\* the statuses on which wait_for_transcription returns
ReturnStatuses_succeededOnly == { "Succeeded" }

ReturnStatuses == { "Succeeded", "Failed" }

\* a cancelled job stays cancelled; the loop sees any status otherwise
NextStatuses(last) == IF last = "Cancelled" THEN { "Cancelled" } ELSE SpeechStatuses

\* requests.post(url, ...) and response.json()['self']
SpeechSubmit ==
  /\ UNCHANGED << piiVars, runVars, nameVars, triggerVars >>
  /\ apc = "running" /\ spc = "submit"
  /\ \/ /\ jobsSubmitted' = jobsSubmitted + 1
        /\ spc' = "poll"
        /\ polls' = 0
        /\ UNCHANGED << orchVars, current_status, final_status, submitFailed >>
     \/ /\ submitFailed' = TRUE
        /\ spc' = "none"
        /\ \E d \in 0..MaxDur : Fail(d)
        /\ UNCHANGED << polls, current_status, final_status, jobsSubmitted >>

\* one iteration of the loop of wait_for_transcription
SpeechPoll ==
  /\ UNCHANGED << piiVars, runVars, nameVars, triggerVars >>
  /\ apc = "running" /\ spc = "poll"
  /\ \/ \E status \in NextStatuses(current_status) :
          IF status \in ReturnStatuses
          THEN /\ final_status' = status
               /\ current_status' = "none"
               /\ spc' = "files"
               /\ UNCHANGED << orchVars, polls, jobsSubmitted, submitFailed >>
          ELSE /\ polls < MaxPolls
               /\ polls' = polls + 1
               /\ current_status' = status
               /\ clock' = clock + check_interval
               /\ UNCHANGED << blob_name, AOAI_MULTI_MODAL, AI_VISION_ENABLED,
                               pc, activity, text_result, aoai_output,
                               task_result, outcome, error, apc, attempts,
                               failures, minGap >>
               /\ UNCHANGED << spc, final_status, jobsSubmitted, submitFailed >>
     \/ /\ spc' = "none"
        /\ current_status' = "none"
        /\ \E d \in 0..MaxDur : Fail(d)
        /\ UNCHANGED << polls, final_status, jobsSubmitted, submitFailed >>

\* final_status['links']['files'] and the request for the list of files
SpeechFiles ==
  /\ UNCHANGED << piiVars, runVars, nameVars, triggerVars >>
  /\ apc = "running" /\ spc = "files"
  /\ \/ /\ spc' = "content"
        /\ UNCHANGED << orchVars, polls, current_status, final_status,
                        jobsSubmitted, submitFailed >>
     \/ /\ spc' = "none"
        /\ \E d \in 0..MaxDur : Fail(d)
        /\ UNCHANGED << polls, current_status, final_status, jobsSubmitted,
                        submitFailed >>

\* the request for the content and combinedRecognizedPhrases[0]['display']
SpeechContent ==
  /\ UNCHANGED << piiVars, runVars, nameVars, triggerVars >>
  /\ apc = "running" /\ spc = "content"
  /\ spc' = "none"
  /\ \/ Succeed
     \/ \E d \in 0..MaxDur : Fail(d)
  /\ UNCHANGED << polls, current_status, final_status, jobsSubmitted,
                  submitFailed >>

Next ==
  \/ Classify
  \/ StartAttempt
  \/ RetryTimerFires
  \/ ActivitySucceeds
  \/ ActivityFails
  \/ SpeechSubmit
  \/ SpeechPoll
  \/ SpeechFiles
  \/ SpeechContent

Spec == Init /\ [][Next]_vars


(***************************************************************************)
(* analyze_document_blob                                                   *)
(***************************************************************************)
\* max_wait_time = 300  # 5 minutes max
max_wait_time == 300
\* time.sleep(2)  # Poll every 2 seconds
poll_interval == 2
\* requests.get(operation_url, headers=headers, timeout=30)
request_timeout == 30

\* f"{storage_account_url}/{target_container}/"
TargetPrefix == <<"T", "/">>

JsonSuffix == <<".","j","s","o","n">>

LocJson == TargetPrefix \o <<"s","/","a",".","j","s","o","n">>
LocPdf == TargetPrefix \o <<"s","/","a",".","p","d","f">>
LocOther == TargetPrefix \o <<"s","/","b",".","p","d","f">>
LocForeign == <<"O","/","s","/","a",".","p","d","f">>

\* results of a succeeded job: task items, documents and targets present or not
JobResults ==
  { [items |-> FALSE, documents |-> FALSE, targets |-> << >>],
    [items |-> TRUE, documents |-> FALSE, targets |-> << >>] }
  \cup { [items |-> TRUE, documents |-> TRUE, targets |-> t] :
         t \in { << >>, << LocJson >>, << LocJson, LocPdf >>, << LocPdf, LocJson >>,
                 << LocOther, LocPdf >>, << LocJson, << >> >>, << LocForeign >>,
                 << << >>, LocPdf >> } }

\* answers to the job request: the status code and whether the
\* operation-location header is present
SubmitResponses == [status_code : { 200, 202, 404 }, operation_location : BOOLEAN]

\* what follows the 2xx answer that is not 202 accepted as well
SubmitOutcome_any2xx(response) ==
  IF response.status_code >= 300 THEN "http_error"
  ELSE IF ~response.operation_location THEN "key_error"
  ELSE "poll"

\* what follows the answer to the job request
SubmitOutcome(response) ==
  IF response.status_code # 202
  THEN IF response.status_code >= 400 THEN "http_error" ELSE "return"
  ELSE IF ~response.operation_location THEN "key_error"
  ELSE "poll"

\* the loop over targets without the break: the last such location
FirstNonJson_last(targets) ==
  LET S == { k \in 1..Len(targets) : ~EndsWith(targets[k], <<".","j","s","o","n">>) }
  IN IF S = {} THEN << >>
     ELSE targets[CHOOSE k \in S : \A l \in S : l <= k]

RECURSIVE FirstNonJson(_)
\* the loop over targets: the first location that does not end in ".json"
\* (the empty sequence stands for None)
FirstNonJson(targets) ==
  IF targets = << >> THEN << >>
  ELSE IF ~EndsWith(Head(targets), JsonSuffix) THEN Head(targets)
       ELSE FirstNonJson(Tail(targets))

\* blob_name = blob.name.split('/')[-1]
pii_blob_name == AfterLastSlash(pii_blob)

\* file_extension = blob_name.split('.')[-1] if '.' in blob_name else 'pdf'
pii_file_extension(name) ==
  IF HasDot(name) THEN AfterLastDot(name) ELSE <<"p","d","f">>

\* new_blob_name = blob_name.replace(f".{file_extension}", f"_redacted.{file_extension}")
new_blob_name(name) ==
  Replace(name, <<".">> \o pii_file_extension(name),
          <<"_","r","e","d","a","c","t","e","d",".">> \o pii_file_extension(name))

\* the function returns to the host without an exception
PiiReturn(logged) ==
  /\ ppc' = "done"
  /\ pii_exit' = "returned"
  /\ pii_log' = pii_log \cup logged

\* an exception is logged by its except clause and raised again
PiiCaught_reraised(kind) ==
  /\ ppc' = "done"
  /\ pii_exit' = "raised"
  /\ pii_log' = pii_log \cup { kind }

\* an exception is caught by one of the two except clauses and logged
PiiCaught(kind) == PiiReturn({ kind })

\* from the start of the function to the start of the poll loop
PiiStart ==
  /\ ppc = "start"
  /\ pii_exit = "running"
  /\ IF ~language_endpoint \/ ~storage_account_url
     THEN PiiReturn({ "config_error" }) /\ UNCHANGED submit_response
     ELSE \/ \* the submit request raises (timeout, connection error)
             PiiCaught("request_error") /\ UNCHANGED submit_response
          \/ \E response \in SubmitResponses :
               /\ submit_response' = response
               /\ CASE SubmitOutcome(response) = "http_error" ->
                         \* logged, then raise_for_status() raises
                         PiiReturn({ "submit_error", "request_error" })
                    [] SubmitOutcome(response) = "return" ->
                         \* logged, then the function returns
                         PiiReturn({ "submit_error" })
                    [] SubmitOutcome(response) = "key_error" ->
                         \* no operation-location header
                         PiiCaught("unexpected_error")
                    [] SubmitOutcome(response) = "poll" ->
                         /\ ppc' = "poll"
                         /\ pii_log' = pii_log \cup { "job_started" }
                         /\ UNCHANGED pii_exit
  /\ elapsed' = 0
  /\ UNCHANGED << language_endpoint, storage_account_url, pii_blob, polled,
                  copy_status, copy_polls, root_blobs, sub_deleted, job_result,
                  redacted_pdf_url >>
  /\ UNCHANGED << orchVars, speechVars, runVars, nameVars, triggerVars >>

\* one iteration of the poll loop: the status request, which takes d seconds,
\* and what follows it up to the wait for the copy
PiiPoll ==
  /\ ppc = "poll"
  /\ elapsed < max_wait_time
  /\ polled' = TRUE
  /\ \E d \in 0..request_timeout :
     \/ \* the request raises, or raise_for_status() does
        /\ PiiCaught("request_error")
        /\ elapsed' = elapsed + d
        /\ UNCHANGED << copy_status, root_blobs, job_result, redacted_pdf_url >>
     \/ \* a status that is not terminal
        /\ elapsed' = elapsed + d + poll_interval
        /\ UNCHANGED << ppc, pii_exit, pii_log, copy_status, root_blobs,
                        job_result, redacted_pdf_url >>
     \/ \* failed or cancelled
        /\ \E status \in { "failed", "cancelled" } : PiiReturn({ status })
        /\ elapsed' = elapsed + d
        /\ UNCHANGED << copy_status, root_blobs, job_result, redacted_pdf_url >>
     \/ \* succeeded
        /\ elapsed' = elapsed + d
        /\ \E result \in JobResults :
             /\ job_result' = result
             /\ redacted_pdf_url' =
                  IF result.items /\ result.documents
                  THEN FirstNonJson(result.targets) ELSE << >>
             /\ IF ~result.items
                THEN PiiReturn({ "succeeded", "no_items" })
                     /\ UNCHANGED << copy_status, root_blobs >>
                ELSE IF ~result.documents
                THEN PiiReturn({ "succeeded", "no_documents" })
                     /\ UNCHANGED << copy_status, root_blobs >>
                ELSE IF redacted_pdf_url' = << >>
                THEN PiiReturn({ "succeeded", "no_redacted" })
                     /\ UNCHANGED << copy_status, root_blobs >>
                ELSE IF ~Contains(redacted_pdf_url', TargetPrefix)
                THEN \* split(...)[1] raises IndexError
                     PiiReturn({ "succeeded", "unexpected_error" })
                     /\ UNCHANGED << copy_status, root_blobs >>
                ELSE \/ \* start_copy_from_url or get_blob_properties raises
                        /\ PiiReturn({ "succeeded", "unexpected_error" })
                        /\ UNCHANGED << copy_status, root_blobs >>
                     \/ \* the copy is started
                        /\ \E st \in { "pending", "success", "failed", "aborted" } :
                             /\ copy_status' = st
                             /\ root_blobs' =
                                  IF st = "success"
                                  THEN root_blobs \cup { new_blob_name(pii_blob_name) }
                                  ELSE root_blobs
                        /\ ppc' = "copy_wait"
                        /\ pii_log' = pii_log \cup { "succeeded" }
                        /\ UNCHANGED pii_exit
  /\ UNCHANGED << language_endpoint, storage_account_url, pii_blob, copy_polls,
                  sub_deleted, submit_response >>
  /\ UNCHANGED << orchVars, speechVars, runVars, nameVars, triggerVars >>

\* the else clause of the poll loop: the loop condition is false
PollTimeout_raises ==
  /\ ppc = "poll"
  /\ elapsed >= max_wait_time
  /\ ppc' = "done"
  /\ pii_exit' = "raised"
  /\ pii_log' = pii_log \cup { "timeout" }
  /\ UNCHANGED << language_endpoint, storage_account_url, pii_blob, elapsed,
                  polled, copy_status, copy_polls, root_blobs, sub_deleted,
                  submit_response, job_result, redacted_pdf_url >>
  /\ UNCHANGED << orchVars, speechVars, runVars, nameVars, triggerVars >>

PollTimeout ==
  /\ ppc = "poll"
  /\ elapsed >= max_wait_time
  /\ PiiReturn({ "timeout" })
  /\ UNCHANGED << language_endpoint, storage_account_url, pii_blob, elapsed,
                  polled, copy_status, copy_polls, root_blobs, sub_deleted,
                  submit_response, job_result, redacted_pdf_url >>
  /\ UNCHANGED << orchVars, speechVars, runVars, nameVars, triggerVars >>

\* the wait for the copy and the deletion of the subfolder blob
PiiCopyWait ==
  /\ ppc = "copy_wait"
  /\ IF copy_status = "pending"
     THEN \/ \* time.sleep(0.5) and get_blob_properties()
             /\ \E st \in { "pending", "success", "failed", "aborted" } :
                  /\ st = "pending" => copy_polls < MaxCopyPolls
                  /\ copy_status' = st
                  /\ root_blobs' =
                       IF st = "success"
                       THEN root_blobs \cup { new_blob_name(pii_blob_name) }
                       ELSE root_blobs
             /\ copy_polls' = copy_polls + 1
             /\ UNCHANGED << ppc, pii_exit, pii_log, sub_deleted >>
          \/ \* get_blob_properties() raises
             /\ PiiCaught("unexpected_error")
             /\ UNCHANGED << copy_status, copy_polls, root_blobs, sub_deleted >>
     ELSE \/ \* source_blob.delete_blob()
             /\ sub_deleted' = TRUE
             /\ PiiReturn({ "moved", "deleted" })
             /\ UNCHANGED << copy_status, copy_polls, root_blobs >>
          \/ \* delete_blob() raises
             /\ PiiReturn({ "moved", "unexpected_error" })
             /\ UNCHANGED << copy_status, copy_polls, root_blobs, sub_deleted >>
  /\ UNCHANGED << language_endpoint, storage_account_url, pii_blob, elapsed,
                  polled, submit_response, job_result, redacted_pdf_url >>
  /\ UNCHANGED << orchVars, speechVars, runVars, nameVars, triggerVars >>

NextPii ==
  \/ PiiStart
  \/ PiiPoll
  \/ PollTimeout
  \/ PiiCopyWait

InitPiiOnly ==
  OrchIdle /\ InitSpeech /\ InitPii /\ RunsIdle /\ NamesIdle /\ TriggersIdle

SpecPii == InitPiiOnly /\ [][NextPii]_vars


(***************************************************************************)
(* Two instances of process_blob, from the call of callAoai on              *)
(***************************************************************************)
RunNames ==
  { <<"a",".","w","a","v">>, <<"b",".","w","a","v">>, <<"a",".","p","d","f">> }

\* what callAoai can return
AoaiOutputs == { "summary-1", "summary-2" }

\* FINAL_OUTPUT_CONTAINER = config.get_value("FINAL_OUTPUT_CONTAINER")
FINAL_OUTPUT_CONTAINER == <<"f","i","n","a","l">>

\* the input of writeToBlob with a name of its own for each instance
WriteInput_perInstance(i) ==
  [json_str |-> run_output[i],
   blob_name |-> << IF i = 1 THEN "1" ELSE "2", "/" >> \o run_name[i],
   final_output_container |-> FINAL_OUTPUT_CONTAINER]

\* the input of writeToBlob
WriteInput(i) ==
  [json_str |-> run_output[i],
   blob_name |-> run_name[i],
   final_output_container |-> FINAL_OUTPUT_CONTAINER]

\* the name of the persisted output: call_42.wav is persisted as call_42.json
DerivedName(name) ==
  (IF HasDot(name) THEN SubSeq(name, 1, LastDot(name) - 1) ELSE name)
    \o <<".","j","s","o","n">>

\* the object a write leaves in the store
WrittenObject(input) ==
  [container |-> input.final_output_container,
   name |-> DerivedName(input.blob_name),
   content |-> input.json_str]

\* the store after a write: the object replaces the one of the same name
StoreAfterWrite(st, input) ==
  { o \in st : ~(/\ o.container = WrittenObject(input).container
                 /\ o.name = WrittenObject(input).name) }
    \cup { WrittenObject(input) }

InitRuns ==
  /\ run_name \in [Instances -> RunNames]
  /\ run_pc = [i \in Instances |-> "enrich"]
  /\ run_output = [i \in Instances |-> "unbound"]
  /\ run_attempts = [i \in Instances |-> 0]
  /\ run_call = [i \in Instances |-> NoCall]
  /\ store = {}
  /\ last_write = NoObject

\* callAoai returns
RunEnrich ==
  /\ \E i \in Instances :
       /\ run_pc[i] = "enrich"
       /\ \E out \in AoaiOutputs : run_output' = [run_output EXCEPT ![i] = out]
       /\ run_pc' = [run_pc EXCEPT ![i] = "persist"]
  /\ UNCHANGED << run_name, run_attempts, run_call, store, last_write >>
  /\ UNCHANGED << orchVars, speechVars, piiVars, nameVars, triggerVars >>

\* callAoai has failed max_number_of_attempts times
RunEnrichFails ==
  /\ \E i \in Instances :
       /\ run_pc[i] = "enrich"
       /\ run_pc' = [run_pc EXCEPT ![i] = "failed"]
  /\ UNCHANGED << run_name, run_output, run_attempts, run_call, store, last_write >>
  /\ UNCHANGED << orchVars, speechVars, piiVars, nameVars, triggerVars >>

\* one execution of writeToBlob
RunPersist ==
  /\ \E i \in Instances :
       /\ run_pc[i] = "persist"
       /\ run_attempts[i] < max_number_of_attempts
       /\ run_attempts' = [run_attempts EXCEPT ![i] = @ + 1]
       /\ run_call' = [run_call EXCEPT ![i] = WriteInput(i)]
       /\ \/ \* the write is done and the activity returns
             /\ store' = StoreAfterWrite(store, WriteInput(i))
             /\ last_write' = WrittenObject(WriteInput(i))
             /\ run_pc' = [run_pc EXCEPT ![i] = "completed"]
          \/ \* the activity raises
             /\ run_pc' = [run_pc EXCEPT ![i] =
                             IF run_attempts'[i] = max_number_of_attempts
                             THEN "failed" ELSE "persist"]
             /\ UNCHANGED << store, last_write >>
  /\ UNCHANGED << run_name, run_output >>
  /\ UNCHANGED << orchVars, speechVars, piiVars, nameVars, triggerVars >>

NextRuns ==
  \/ RunEnrich
  \/ RunEnrichFails
  \/ RunPersist

InitRunsOnly ==
  OrchIdle /\ InitSpeech /\ PiiIdle /\ InitRuns /\ NamesIdle /\ TriggersIdle

SpecRuns == InitRunsOnly /\ [][NextRuns]_vars


(***************************************************************************)
(* The name of the redacted blob, for two blobs that trigger                *)
(* analyze_document_blob                                                    *)
(***************************************************************************)
\* blob.name of the blobs under bronze/{name}
TriggerBlobNames ==
  { <<"a",".","p","d","f">>, <<"b",".","p","d","f">>,
    <<"d","/","a",".","p","d","f">>, <<"e","/","a",".","p","d","f">>,
    <<"d","/","b",".","p","d","f">>, <<"a",".","d","o","c","x">>,
    <<"a",".","b",".","b">>, <<"a">>, <<"a","_","r","e","d","a","c","t","e","d">> }

InitNames ==
  /\ pii_in \in [Instances -> TriggerBlobNames]
  /\ pii_out = [i \in Instances |-> << >>]

\* blob_name and new_blob_name are computed for one of the blobs
NameDerive ==
  /\ \E i \in Instances :
       /\ pii_out[i] = << >>
       /\ pii_out' = [pii_out EXCEPT ![i] = new_blob_name(AfterLastSlash(pii_in[i]))]
  /\ UNCHANGED pii_in
  /\ UNCHANGED << orchVars, speechVars, piiVars, runVars, triggerVars >>

NextNames == NameDerive

InitNamesOnly ==
  OrchIdle /\ InitSpeech /\ PiiIdle /\ RunsIdle /\ InitNames /\ TriggersIdle

SpecNames == InitNamesOnly /\ [][NextNames]_vars


(***************************************************************************)
(* The triggers of process_blob                                             *)
(***************************************************************************)
\* trigger invocations in one behaviour
MaxTriggers == 2

\* an absent value: body.get(key) of a missing key, or nothing at all
None == << "None" >>

TriggerNames == { <<"a",".","w","a","v">>, <<"b",".","p","d","f">> }

UriOf(name) == <<"u","/">> \o name

\* the blobs that arrive: blob.name and blob.uri
BlobEvents ==
  { [kind |-> "blob", name |-> n, uri |-> UriOf(n), container |-> None] :
    n \in TriggerNames }

\* request bodies: text that is not JSON, a JSON array, and JSON objects with
\* or without the keys name, uri and container
HttpBodies ==
  { [kind |-> k, name |-> None, uri |-> None, container |-> None] :
    k \in { "invalid", "array" } }
  \cup { [kind |-> "object", name |-> n, uri |-> u, container |-> c] :
         n \in TriggerNames \cup { None },
         u \in { UriOf(<<"a",".","w","a","v">>), None },
         c \in { <<"s","i","l","v","e","r">>, None } }

\* what a trigger function returns: nothing for the blob triggers
NoHttpResponse == [status_code |-> 0, instance_id |-> 0]

\* BlobMetadata(name=blob.name, container="bronze", uri=blob.uri).to_dict()
BlobDescriptor(blob) ==
  [name |-> blob.name, container |-> <<"b","r","o","n","z","e">>, uri |-> blob.uri]

\* the descriptor with the container named by the request
HttpDescriptor_fromBody(body) ==
  [name |-> body.name,
   container |-> IF body.container # None THEN body.container
                 ELSE <<"b","r","o","n","z","e">>,
   uri |-> body.uri]

\* blob_input of start_orchestrator_http
HttpDescriptor(body) ==
  [name |-> body.name, container |-> <<"b","r","o","n","z","e">>, uri |-> body.uri]

InitTriggers ==
  /\ started = << >>
  /\ trigger_log = << >>
  /\ finished = {}

\* _handle_blob_trigger, called by either blob trigger
HandleBlobTrigger(source, blob) ==
  /\ Len(trigger_log) < MaxTriggers
  /\ started' = Append(started, BlobDescriptor(blob))
  /\ trigger_log' = Append(trigger_log,
                           [source |-> source, input |-> blob,
                            instance |-> Len(started) + 1,
                            response |-> NoHttpResponse])
  /\ UNCHANGED finished
  /\ UNCHANGED << orchVars, speechVars, piiVars, runVars, nameVars >>

start_orchestrator_blob == \E blob \in BlobEvents : HandleBlobTrigger("blob", blob)

\* registered in the Development environment only
start_orchestrator_blob_local ==
  \E blob \in BlobEvents : HandleBlobTrigger("blob_local", blob)

start_orchestrator_http ==
  /\ Len(trigger_log) < MaxTriggers
  /\ \E body \in HttpBodies :
       CASE body.kind = "invalid" ->
              \* req.get_json() raises ValueError
              /\ trigger_log' = Append(trigger_log,
                                       [source |-> "http", input |-> body,
                                        instance |-> 0,
                                        response |-> [status_code |-> 400,
                                                      instance_id |-> 0]])
              /\ UNCHANGED started
         [] body.kind = "array" ->
              \* body.get raises AttributeError, which is not caught
              /\ trigger_log' = Append(trigger_log,
                                       [source |-> "http", input |-> body,
                                        instance |-> 0,
                                        response |-> [status_code |-> 500,
                                                      instance_id |-> 0]])
              /\ UNCHANGED started
         [] body.kind = "object" ->
              /\ started' = Append(started, HttpDescriptor(body))
              /\ trigger_log' = Append(trigger_log,
                                       [source |-> "http", input |-> body,
                                        instance |-> Len(started) + 1,
                                        response |-> [status_code |-> 202,
                                                      instance_id |-> Len(started) + 1]])
  /\ UNCHANGED finished
  /\ UNCHANGED << orchVars, speechVars, piiVars, runVars, nameVars >>

\* an instance of process_blob ends
InstanceEnds ==
  /\ \E id \in 1..Len(started) :
       /\ id \notin finished
       /\ finished' = finished \cup { id }
  /\ UNCHANGED << started, trigger_log >>
  /\ UNCHANGED << orchVars, speechVars, piiVars, runVars, nameVars >>

NextTrigger ==
  \/ start_orchestrator_blob
  \/ start_orchestrator_blob_local
  \/ start_orchestrator_http
  \/ InstanceEnds

InitTriggerOnly ==
  OrchIdle /\ InitSpeech /\ PiiIdle /\ RunsIdle /\ NamesIdle /\ InitTriggers

SpecTrigger == InitTriggerOnly /\ [][NextTrigger]_vars


(***************************************************************************)
(* Properties                                                              *)
(***************************************************************************)
\* the text after the last '.' of the blob name, compared case-insensitively
\* (no text when the name has no '.')
NameExtension == IF HasDot(blob_name) THEN Lower(AfterLastDot(blob_name)) ELSE << >>

IsAudioName == HasDot(blob_name) /\ NameExtension \in audio_extensions
IsDocumentName == HasDot(blob_name) /\ NameExtension \in document_extensions

TogglesDisabled == ~Enabled(AOAI_MULTI_MODAL) /\ ~Enabled(AI_VISION_ENABLED)

\* the extraction activities that were scheduled or executed
ExtractionsCalled ==
  { a \in ExtractionActivities : attempts[a] > 0 \/ (pc = "extract" /\ activity = a) }

ActivitiesCalled ==
  ExtractionsCalled
  \cup { a \in { "callAoai", "writeToBlob" } : attempts[a] > 0 \/ CurrentActivity = a }

\* the activity returned its result to the orchestrator
Succeeded(a) ==
  CASE a \in ExtractionActivities -> activity = a /\ text_result # "unbound"
    [] a = "callAoai"             -> aoai_output # "unbound"
    [] a = "writeToBlob"          -> task_result # "unbound"

\* C1: with both toggles disabled, a blob whose extension (case-insensitive
\* text after the last '.') is an audio extension is extracted by speechToText
\* only, and one whose extension is a document extension by runDocIntel only.
T_C1 ==
  (pc # "start" /\ TogglesDisabled) =>
    LET called == ExtractionsCalled IN
    /\ IsAudioName => called = { "speechToText" }
    /\ IsDocumentName => called = { "runDocIntel" }

W_C1 ==
  /\ TogglesDisabled
  /\ IsAudioName
  /\ blob_name # Lower(blob_name)
  /\ attempts["speechToText"] > 0

\* C2: a blob whose extension is neither an audio nor a document extension
\* ends with the outcome {status: skipped, error: "Unsupported file type:
\* <ext>"} and no activity is ever called.
CE_C2 ==
  (~IsAudioName /\ ~IsDocumentName) =>
    /\ ActivitiesCalled = {}
    /\ pc # "start" =>
         /\ pc = "skipped"
         /\ outcome.status = "skipped"
         /\ outcome.error = << "Unsupported file type: ", NameExtension >>

\* C3: with the multimodal toggle enabled, a blob with a document extension is
\* extracted by callAoaiMultiModal and never by runDocIntel, whatever the
\* vision toggle is.
T_C3 ==
  (pc # "start" /\ Enabled(AOAI_MULTI_MODAL) /\ IsDocumentName) =>
    /\ ExtractionsCalled = { "callAoaiMultiModal" }
    /\ attempts["runDocIntel"] = 0

W_C3 ==
  /\ Enabled(AOAI_MULTI_MODAL)
  /\ Enabled(AI_VISION_ENABLED)
  /\ IsDocumentName
  /\ attempts["callAoaiMultiModal"] > 0

\* C4: callAoai is never scheduled or started before an extraction activity of
\* the instance has returned, and writeToBlob never before callAoai has
\* returned.
T_C4 ==
  /\ "callAoai" \in ActivitiesCalled =>
       \E a \in ExtractionActivities : attempts[a] > 0 /\ Succeeded(a)
  /\ "writeToBlob" \in ActivitiesCalled =>
       attempts["callAoai"] > 0 /\ Succeeded("callAoai")

W_C4 == attempts["writeToBlob"] > 0 /\ attempts["callAoai"] > 1

\* C5: an activity whose every execution fails is executed exactly 5 times,
\* after which the instance has failed; no activity is executed a 6th time.
T_C5 ==
  \A a \in Activities :
    /\ attempts[a] <= 5
    /\ (failures[a] = attempts[a] /\ attempts[a] = 5) =>
         pc = "failed" /\ error = << "ActivityFailed", a >>
    /\ error = << "ActivityFailed", a >> =>
         pc = "failed" /\ attempts[a] = 5 /\ failures[a] = 5

W_C5 == pc = "failed" /\ error = << "ActivityFailed", "writeToBlob" >>

\* C6: an activity that fails N < 5 times and then succeeds has been executed
\* exactly N+1 times, consecutive executions start at least 5 seconds apart,
\* and the orchestration goes on to the next step and completes when the last
\* one has succeeded.
T_C6 ==
  /\ \A a \in Activities :
       Succeeded(a) => failures[a] < 5 /\ attempts[a] = failures[a] + 1
  /\ minGap = -1 \/ minGap >= 5
  /\ (\E a \in ExtractionActivities : Succeeded(a)) =>
       \/ pc \in { "enrich", "persist", "completed" }
       \/ pc = "failed" /\ error \in { << "ActivityFailed", "callAoai" >>,
                                       << "ActivityFailed", "writeToBlob" >> }
  /\ Succeeded("callAoai") =>
       \/ pc \in { "persist", "completed" }
       \/ pc = "failed" /\ error = << "ActivityFailed", "writeToBlob" >>
  /\ Succeeded("writeToBlob") => pc = "completed"

W_C6 ==
  /\ pc = "completed"
  /\ failures["writeToBlob"] = 4
  /\ failures["callAoai"] = 1
  /\ minGap >= 5

\* C7: once an activity has exhausted its retries the later steps are never
\* called, the instance is failed, and a failed instance stays failed and
\* executes nothing more.
T_C7 ==
  /\ [](/\ (\E a \in ExtractionActivities : failures[a] >= 5) =>
             /\ pc = "failed"
             /\ ~("callAoai" \in ActivitiesCalled)
             /\ ~("writeToBlob" \in ActivitiesCalled)
        /\ failures["callAoai"] >= 5 =>
             pc = "failed" /\ ~("writeToBlob" \in ActivitiesCalled)
        /\ failures["writeToBlob"] >= 5 => pc = "failed")
  /\ [][pc = "failed" => (pc' = "failed" /\ attempts' = attempts /\ apc' = "none")]_vars

W_C7 == pc = "failed" /\ error = << "ActivityFailed", "runDocIntel" >>

\* C8 (as stated): when no submit request fails, one extraction of one file
\* submits at most one transcription job.
CE_C8 == ~submitFailed => jobsSubmitted <= 1

\* C8 (amended): retry is applied per activity: every execution of
\* speechToText whose submit request succeeds submits one more transcription
\* job, so one extraction submits at most 5 jobs.
T_C8 ==
  /\ jobsSubmitted <= 5
  /\ jobsSubmitted <= attempts["speechToText"]
  /\ ~submitFailed =>
       jobsSubmitted = attempts["speechToText"] - (IF spc = "submit" THEN 1 ELSE 0)

W_C8 == ~submitFailed /\ jobsSubmitted = 5 /\ pc = "enrich"

\* C9: when the job status never becomes terminal, the poll loop reports the
\* timeout at an elapsed time that is not later than the 300 second ceiling.
CE_C9 == "timeout" \in pii_log => elapsed <= 300

\* C10 (as stated): when polling exceeds its ceiling the run ends in a failure
\* that its caller sees, not in a normal completion.
CE_C10 == "timeout" \in pii_log => pii_exit = "raised"

\* C10 (amended): when polling exceeds its ceiling the timeout is logged and
\* the function returns normally to its host, having copied and deleted no
\* blob.
T_C10 ==
  "timeout" \in pii_log =>
    /\ pii_exit = "returned"
    /\ ppc = "done"
    /\ root_blobs = {}
    /\ ~sub_deleted

W_C10 == "timeout" \in pii_log /\ polled /\ elapsed >= max_wait_time


\* C11: once a transcription job has reported Failed, the extraction ends in a
\* fatal failure: the activity is not retried, no job is submitted or polled
\* again, and the extraction returns no text.
CE_C11 ==
  final_status = "Failed" =>
    /\ apc # "waiting"
    /\ ~(spc \in { "submit", "poll" })
    /\ text_result = "unbound"

\* C12 (as stated): wait_for_transcription keeps polling only while the job is
\* not terminal: it is never waiting for its next poll after it has read
\* Succeeded, Failed or Cancelled.
CE_C12 ==
  spc = "poll" => ~(current_status \in { "Succeeded", "Failed", "Cancelled" })

\* C12 (amended): wait_for_transcription returns at the first poll that reads
\* Succeeded or Failed and returns that status; on any other status, Cancelled
\* included, it sleeps 10 seconds and polls again.
T_C12 ==
  /\ [](/\ spc = "poll" =>
             /\ ~(current_status \in { "Succeeded", "Failed" })
             /\ clock = polls * 10
        /\ spc \in { "files", "content" } =>
             final_status \in { "Succeeded", "Failed" })
  /\ [][(spc = "poll" /\ spc' = "poll") =>
          /\ current_status' \in { "Running", "Cancelled" }
          /\ clock' = clock + 10
          /\ final_status' = final_status]_vars

W_C12 == spc = "poll" /\ current_status = "Cancelled" /\ clock = 10

\* C13 (as stated): an instance whose three steps succeeded returns an outcome
\* whose status is completed and that holds the descriptor, the enrichment
\* output and the persistence result.
CE_C13 ==
  pc = "completed" =>
    /\ "status" \in DOMAIN outcome
    /\ outcome.status = "completed"
    /\ outcome.blob = blob_input
    /\ outcome.text_result = aoai_output
    /\ outcome.task_result = task_result

\* C13 (amended): an instance whose three steps succeeded returns an outcome
\* with exactly the keys blob (the descriptor), text_result (the enrichment
\* output) and task_result (the persistence result), without a status; the
\* only returned outcome that has a status is the skipped one.
T_C13 ==
  /\ (\A a \in { activity, "callAoai", "writeToBlob" } :
        a \in Activities /\ Succeeded(a)) <=> pc = "completed"
  /\ pc = "completed" =>
       /\ DOMAIN outcome = { "blob", "text_result", "task_result" }
       /\ outcome.blob = blob_input
       /\ outcome.text_result = aoai_output
       /\ outcome.task_result = task_result
  /\ "status" \in DOMAIN outcome =>
       /\ outcome.status \in { "completed", "skipped", "failed" }
       /\ outcome.status = "skipped"
       /\ pc = "skipped"
  /\ pc \in { "start", "extract", "enrich", "persist", "failed" } =>
       outcome = NoOutcome

W_C13 == pc = "completed" /\ activity = "speechToText" /\ failures["callAoai"] = 2

\* C14: when process_blob is invoked twice for the same descriptor, one after
\* the other or at the same time, writeToBlob is called with the same name and
\* container both times, and once both have completed exactly one persisted
\* output exists under the derived name: the one written last.
T_C14 ==
  \A i, j \in Instances :
    (i # j /\ run_name[i] = run_name[j]) =>
      /\ (run_call[i] # NoCall /\ run_call[j] # NoCall) =>
           /\ run_call[i].blob_name = run_call[j].blob_name
           /\ run_call[i].final_output_container
                = run_call[j].final_output_container
      /\ (run_pc[i] = "completed" /\ run_pc[j] = "completed") =>
           LET under == { o \in store :
                          /\ o.container = FINAL_OUTPUT_CONTAINER
                          /\ o.name = DerivedName(run_name[i]) }
           IN /\ Cardinality(under) = 1
              /\ under = { last_write }

\* both instances of the same descriptor have completed, with different
\* outputs, one of them after a failed write
W_C14 ==
  /\ run_name[1] = run_name[2]
  /\ run_pc[1] = "completed" /\ run_pc[2] = "completed"
  /\ run_output[1] # run_output[2]
  /\ run_attempts[1] > 1

\* C15 as stated: two invocations for blobs of different names never write
\* the redacted output to the same destination name.
CE_C15 ==
  \A i, j \in Instances :
    (/\ pii_in[i] # pii_in[j]
     /\ pii_out[i] # << >>
     /\ pii_out[j] # << >>) => pii_out[i] # pii_out[j]

\* the response of the HTTP trigger that started an instance
CheckStatusResponse(id) == [status_code |-> 202, instance_id |-> id]

\* the log entry e records the start of one instance with descriptor d
StartedWith(e, d) ==
  /\ e.instance \in 1..Len(started)
  /\ started[e.instance] = d

NonJsonTargets(targets) ==
  { k \in 1..Len(targets) : ~EndsWith(targets[k], JsonSuffix) }

Least(S) == CHOOSE x \in S : \A y \in S : x <= y

\* C17: after a succeeded job the redacted artifact is the first target of
\* the first document of the first task item whose location does not end in
\* '.json'; when there is no task item, no document or no such target,
\* nothing is chosen, copied or deleted.
T_C17 ==
  "succeeded" \in pii_log =>
    LET candidates == NonJsonTargets(job_result.targets) IN
    IF job_result.items /\ job_result.documents /\ candidates # {}
    THEN redacted_pdf_url = job_result.targets[Least(candidates)]
    ELSE /\ redacted_pdf_url = << >>
         /\ copy_status = "none"
         /\ root_blobs = {}
         /\ ~sub_deleted

\* the second target was chosen, after one that ends in ".json", and moved
W_C17 ==
  /\ "succeeded" \in pii_log
  /\ job_result.targets = << LocJson, LocPdf >>
  /\ redacted_pdf_url = LocPdf
  /\ sub_deleted

\* C18 as stated: the intermediate blob is deleted only after the copy to the
\* root of the target container has completed successfully.
CE_C18 ==
  sub_deleted =>
    /\ copy_status = "success"
    /\ new_blob_name(pii_blob_name) \in root_blobs

\* the job request was accepted: configuration present, 202 and a location
Accepted ==
  /\ language_endpoint
  /\ storage_account_url
  /\ submit_response.status_code = 202
  /\ submit_response.operation_location

\* C19: the job status is polled only after the job request was answered with
\* 202 and an operation location; when it was not, or when the endpoint or the
\* storage URL is not configured, nothing is polled, copied or deleted.
T_C19 ==
  /\ polled => Accepted
  /\ ~Accepted =>
       /\ ~polled
       /\ ppc \in { "start", "done" }
       /\ copy_status = "none"
       /\ root_blobs = {}
       /\ ~sub_deleted

\* a request answered 200 with an operation location has ended the function
\* without a poll
W_C19 ==
  /\ submit_response.status_code = 200
  /\ submit_response.operation_location
  /\ ppc = "done"
  /\ ~polled

\* name with "_redacted" inserted before its final extension
RedactedName(name) ==
  SubSeq(name, 1, LastDot(name) - 1)
    \o <<"_","r","e","d","a","c","t","e","d">>
    \o SubSeq(name, LastDot(name), Len(name))

\* C20 as stated: the redacted output's name is the base name of the input
\* with '_redacted' inserted before its final extension, nothing else changed,
\* and it always differs from the input's base name.
CE_C20 ==
  \A n \in root_blobs :
    /\ n # pii_blob_name
    /\ HasDot(pii_blob_name) => n = RedactedName(pii_blob_name)

\* what analyze_document_blob logs with logging.error
PiiErrors ==
  { "config_error", "submit_error", "request_error", "unexpected_error",
    "failed", "cancelled", "timeout" }

\* C21: analyze_document_blob always returns to its host normally: whatever
\* the submit, poll, copy or delete calls do (error response, exception,
\* failed or cancelled job, timeout), no exception leaves the function.
T_C21 ==
  /\ pii_exit \in { "running", "returned" }
  /\ ppc = "done" <=> pii_exit = "returned"
  /\ pii_log \cap PiiErrors # {} => pii_exit = "returned"

\* the deletion of the intermediate blob has raised after the copy, and the
\* function has returned
W_C21 ==
  /\ pii_exit = "returned"
  /\ copy_status # "none"
  /\ ~sub_deleted
  /\ { "moved", "unexpected_error" } \subseteq pii_log

\* C22 as stated: start_orchestrator_http starts an instance only for a body
\* that is a JSON object carrying a name; a body that is not valid JSON is
\* answered with 400 and starts no instance, and no request starts an
\* instance whose descriptor has no name.
CE_C22 ==
  /\ \A k \in 1..Len(trigger_log) :
       LET e == trigger_log[k] IN
       e.source = "http" =>
         /\ e.input.kind = "invalid" =>
              /\ e.instance = 0
              /\ e.response.status_code = 400
         /\ e.instance # 0 =>
              /\ e.input.kind = "object"
              /\ e.input.name # None
  /\ \A id \in 1..Len(started) : started[id].name # None

=============================================================================
